---- MODULE Spec2Model ----
(***************************************************************************)
(* Model of mapapp (hause41/mapapp): the coordinate resolver, the map      *)
(* fetcher, the usage/plan gate and the /generate-pdf request handler of   *)
(* src/main.py.                                                            *)
(*                                                                         *)
(* Texts are sequences of one-character strings, so that the regular       *)
(* expressions of the resolver are matched character by character.        *)
(* Decimal numbers are integers scaled by 10^FracDigits.                   *)
(* A Python tuple (lat, lng) is the sequence <<lat, lng>>, None is <<>>.   *)
(***************************************************************************)
EXTENDS Integers, Sequences, FiniteSets, TLC

VARIABLES
    users,          \* users table: user id -> [plan]
    usage_logs,     \* usage_logs table: set of [id, user_id, created_at, by]
    now,            \* datetime.utcnow(): [ym: month, rest: instant in the month]
    req,            \* one /generate-pdf request per request id
    gate_out,       \* what the quota gate answered (NotAsked before the call)
    url_text,       \* argument of extract_coords_from_url
    coords,         \* its return value (<<"pending">> before the call)
    rc_in,          \* arguments of resolve_coordinates and the services' answers
    rc_out          \* its outcome (NotCalled before the call)

vars == <<users, usage_logs, now, req, gate_out, url_text, coords, rc_in, rc_out>>

(***************************************************************************)
(* Bounds of the model                                                     *)
(***************************************************************************)
FracDigits == 6   \* decimal digits kept after the point
MaxSegs == 2      \* coordinate-bearing pieces in a generated URL

None == <<>>
Pending == <<"pending">>

(***************************************************************************)
(* Text helpers                                                            *)
(***************************************************************************)
Digit == {"0", "1", "2", "3", "4", "5", "6", "7", "8", "9"}

DigitVal(c) ==
    CASE c = "0" -> 0 [] c = "1" -> 1 [] c = "2" -> 2 [] c = "3" -> 3
      [] c = "4" -> 4 [] c = "5" -> 5 [] c = "6" -> 6 [] c = "7" -> 7
      [] c = "8" -> 8 [] c = "9" -> 9

RECURSIVE Pow10(_)
Pow10(n) == IF n = 0 THEN 1 ELSE 10 * Pow10(n - 1)

Scale == Pow10(FracDigits)

MinOf(S) == CHOOSE x \in S : \A y \in S : x <= y


\* the literal lit occurs in s at position i
StartsAt(s, i, lit) ==
    /\ i + Len(lit) - 1 <= Len(s)
    /\ SubSeq(s, i, i + Len(lit) - 1) = lit

\* lit in s
Contains(s, lit) == \E i \in 1..Len(s) : StartsAt(s, i, lit)

\* s.startswith(lit)
StartsWith(s, lit) == StartsAt(s, 1, lit)

\* str.strip() over the alphabet of the model (the only whitespace is " ")
RECURSIVE LStrip(_)
LStrip(s) == IF s # <<>> /\ Head(s) = " " THEN LStrip(Tail(s)) ELSE s

RECURSIVE RStrip(_)
RStrip(s) ==
    IF s # <<>> /\ s[Len(s)] = " " THEN RStrip(SubSeq(s, 1, Len(s) - 1)) ELSE s

Strip(s) == RStrip(LStrip(s))

\* str.split(sep) for a one-character separator
RECURSIVE Split(_, _)
Split(s, sep) ==
    IF \A i \in 1..Len(s) : s[i] # sep
    THEN <<s>>
    ELSE LET k == MinOf({i \in 1..Len(s) : s[i] = sep})
         IN  <<SubSeq(s, 1, k - 1)>> \o Split(SubSeq(s, k + 1, Len(s)), sep)

\* str.replace("+", " ")
PlusToSpace(s) == [i \in 1..Len(s) |-> IF s[i] = "+" THEN " " ELSE s[i]]

(***************************************************************************)
(* Numbers                                                                 *)
(***************************************************************************)
\* end (exclusive) of the longest run of digits of s that starts at i
RECURSIVE DigitsEnd(_, _)
DigitsEnd(s, i) ==
    IF i <= Len(s) /\ s[i] \in Digit THEN DigitsEnd(s, i + 1) ELSE i

\* value of the digits s[i..j-1] read as an integer
RECURSIVE IntOf(_, _, _)
IntOf(s, i, j) ==
    IF i >= j THEN 0 ELSE 10 * IntOf(s, i, j - 1) + DigitVal(s[j - 1])

\* value of the digits s[i..j-1] read as a fraction, scaled by Scale
RECURSIVE FracOf(_, _, _, _)
FracOf(s, i, j, w) ==
    IF i >= j \/ w = 0 THEN 0
    ELSE DigitVal(s[i]) * Pow10(w - 1) + FracOf(s, i + 1, j, w - 1)

\* a float() that loses the sign
DecimalOfUnsigned(s, i, j) ==
    LET a    == IF s[i] \in {"-", "+"} THEN i + 1 ELSE i
        d    == DigitsEnd(s, a)
        frac == IF d < j /\ s[d] = "." THEN FracOf(s, d + 1, j, FracDigits) ELSE 0
    IN  IntOf(s, a, d) * Scale + frac

\* float() of an optionally signed decimal s[i..j-1] = [+-]digits[.digits]
DecimalOf(s, i, j) ==
    LET neg  == s[i] = "-"
        a    == IF s[i] \in {"-", "+"} THEN i + 1 ELSE i
        d    == DigitsEnd(s, a)
        frac == IF d < j /\ s[d] = "." THEN FracOf(s, d + 1, j, FracDigits) ELSE 0
        mag  == IntOf(s, a, d) * Scale + frac
    IN  IF neg THEN 0 - mag ELSE mag

\* regex  -?\d+\.?\d*  anchored at i: end (exclusive) of the match, 0 if none
NumEnd(s, i) ==
    LET a == IF i <= Len(s) /\ s[i] = "-" THEN i + 1 ELSE i
        d == DigitsEnd(s, a)
    IN  IF d = a THEN 0
        ELSE IF d <= Len(s) /\ s[d] = "." THEN DigitsEnd(s, d + 1) ELSE d

\* regex  -?\d{1,3}\.\d{3,}  anchored at i: end (exclusive), 0 if none
GenericNumEnd(s, i) ==
    LET a == IF i <= Len(s) /\ s[i] = "-" THEN i + 1 ELSE i
        d == DigitsEnd(s, a)
        e == DigitsEnd(s, d + 1)
    IN  IF d - a >= 1 /\ d - a <= 3 /\ d <= Len(s) /\ s[d] = "." /\ e - (d + 1) >= 3
        THEN e ELSE 0

\* -90 <= lat <= 90 and -180 <= lng <= 180
InRange(lat, lng) ==
    /\ 0 - 90 * Scale <= lat /\ lat <= 90 * Scale
    /\ 0 - 180 * Scale <= lng /\ lng <= 180 * Scale

(***************************************************************************)
(* re.search: the match at the leftmost position where M matches           *)
(***************************************************************************)
Search(M(_, _), s) ==
    LET hits == {i \in 1..Len(s) : M(s, i) # None}
    IN  IF hits = {} THEN None ELSE M(s, MinOf(hits))

(***************************************************************************)
(* Literals of the patterns                                                *)
(***************************************************************************)
LitHttp == <<"h", "t", "t", "p">>
LitGooGl == <<"g", "o", "o", ".", "g", "l">>
LitMapsApp == <<"m", "a", "p", "s", ".", "a", "p", "p">>
LitMapsSearch == <<"/", "m", "a", "p", "s", "/", "s", "e", "a", "r", "c", "h", "/">>
LitMapsDir == <<"/", "m", "a", "p", "s", "/", "d", "i", "r", "/">>
LitPlace == <<"/", "p", "l", "a", "c", "e", "/">>
Lit3d == <<"!", "3", "d">>
Lit4d == <<"!", "4", "d">>
LitQ == <<"q">>
LitLl == <<"l", "l">>

(***************************************************************************)
(* The coordinate shapes of extract_coords_from_url, each anchored at i    *)
(***************************************************************************)
\* lit(N),(N)  with an optional "+" before the second number when plus
PairAfter(s, i, lit, plus) ==
    IF ~StartsAt(s, i, lit) THEN None
    ELSE LET a  == i + Len(lit)
             e1 == NumEnd(s, a)
         IN  IF e1 = 0 \/ e1 > Len(s) \/ s[e1] # "," THEN None
             ELSE LET b  == IF plus /\ e1 + 1 <= Len(s) /\ s[e1 + 1] = "+"
                            THEN e1 + 2 ELSE e1 + 1
                      e2 == NumEnd(s, b)
                  IN  IF e2 = 0 THEN None
                      ELSE <<DecimalOf(s, a, e1), DecimalOf(s, b, e2)>>

\* @(-?\d+\.?\d*),(-?\d+\.?\d*)
AtAt(s, i) == PairAfter(s, i, <<"@">>, FALSE)

\* /maps/search/(-?\d+\.?\d*),\+?(-?\d+\.?\d*)
SearchAt(s, i) == PairAfter(s, i, LitMapsSearch, TRUE)

\* /maps/dir/(-?\d+\.?\d*),\+?(-?\d+\.?\d*)
DirAt(s, i) == PairAfter(s, i, LitMapsDir, TRUE)

\* /place/(-?\d+\.?\d*),(-?\d+\.?\d*)
PlaceAt(s, i) == PairAfter(s, i, LitPlace, FALSE)

\* lit(-?\d+\.?\d*) : the number as <<value>>
NumAfter(s, i, lit) ==
    IF ~StartsAt(s, i, lit) THEN None
    ELSE LET a == i + Len(lit)
             e == NumEnd(s, a)
         IN  IF e = 0 THEN None ELSE <<DecimalOf(s, a, e)>>

Data3dAt(s, i) == NumAfter(s, i, Lit3d)
Data4dAt(s, i) == NumAfter(s, i, Lit4d)

\* (-?\d{1,3}\.\d{3,}),\s?\+?(-?\d{1,3}\.\d{3,})
FallbackAt(s, i) ==
    LET e1 == GenericNumEnd(s, i)
    IN  IF e1 = 0 \/ e1 > Len(s) \/ s[e1] # "," THEN None
        ELSE LET b0 == IF e1 + 1 <= Len(s) /\ s[e1 + 1] = " " THEN e1 + 2 ELSE e1 + 1
                 b  == IF b0 <= Len(s) /\ s[b0] = "+" THEN b0 + 1 ELSE b0
                 e2 == GenericNumEnd(s, b)
             IN  IF e2 = 0 THEN None
                 ELSE <<DecimalOf(s, i, e1), DecimalOf(s, b, e2)>>

\* re.match(r'^(-?\d+\.?\d*),\s*(-?\d+\.?\d*)$', v)
RECURSIVE SpacesEnd(_, _)
SpacesEnd(s, i) == IF i <= Len(s) /\ s[i] = " " THEN SpacesEnd(s, i + 1) ELSE i

CoordMatch(v) ==
    LET e1 == NumEnd(v, 1)
    IN  IF e1 = 0 \/ e1 > Len(v) \/ v[e1] # "," THEN None
        ELSE LET b  == SpacesEnd(v, e1 + 1)
                 e2 == NumEnd(v, b)
             IN  IF e2 = 0 \/ e2 # Len(v) + 1 THEN None
                 ELSE <<DecimalOf(v, 1, e1), DecimalOf(v, b, e2)>>

(***************************************************************************)
(* urlparse(url).query and parse_qs(query).get(name, [None])[0]            *)
(* (the alphabet of the model has no "#", "%" or ";")                      *)
(***************************************************************************)
UrlQuery(url) ==
    IF \A i \in 1..Len(url) : url[i] # "?" THEN <<>>
    ELSE LET k == MinOf({i \in 1..Len(url) : url[i] = "?"})
         IN  SubSeq(url, k + 1, Len(url))

\* the (name, value) of one name=value field; None when parse_qs skips it
QsField(f) ==
    IF \A i \in 1..Len(f) : f[i] # "=" THEN None
    ELSE LET k == MinOf({i \in 1..Len(f) : f[i] = "="})
             v == SubSeq(f, k + 1, Len(f))
         IN  IF v = <<>> THEN None
             ELSE <<PlusToSpace(SubSeq(f, 1, k - 1)), PlusToSpace(v)>>

\* first value of the parameter name; None when it is absent
QsGet(query, name) ==
    LET fs   == Split(query, "&")
        hits == {i \in 1..Len(fs) : QsField(fs[i]) # None /\ QsField(fs[i])[1] = name}
    IN  IF hits = {} THEN None ELSE QsField(fs[MinOf(hits)])[2]

(***************************************************************************)
(* extract_coords_from_url                                                 *)
(***************************************************************************)
at_match(url) == Search(AtAt, url)
search_match(url) == Search(SearchAt, url)
dir_match(url) == Search(DirAt, url)
place_match(url) == Search(PlaceAt, url)
fallback_match(url) == Search(FallbackAt, url)

q_match(url) ==
    LET q_val == QsGet(UrlQuery(url), LitQ)
    IN  IF q_val # None THEN CoordMatch(q_val) ELSE None

ll_match(url) ==
    LET ll_val == QsGet(UrlQuery(url), LitLl)
    IN  IF ll_val # None THEN CoordMatch(ll_val) ELSE None

data_match(url) ==
    LET data_lat == Search(Data3dAt, url)
        data_lng == Search(Data4dAt, url)
    IN  IF data_lat # None /\ data_lng # None
        THEN <<data_lat[1], data_lng[1]>> ELSE None

\* "if m: return m" followed by the rest of the function
OrElse(m, rest) == IF m # None THEN m ELSE rest

\* the fallback without its range check
fallback_unchecked(url) == fallback_match(url)

fallback_checked(url) ==
    LET m == fallback_match(url)
    IN  IF m # None /\ InRange(m[1], m[2]) THEN m ELSE None

\* the cascade with the generic heuristic tried before the !3d/!4d pair
extract_generic_before_data(url) ==
    OrElse(at_match(url),
    OrElse(search_match(url),
    OrElse(dir_match(url),
    OrElse(q_match(url),
    OrElse(ll_match(url),
    OrElse(place_match(url),
    OrElse(fallback_checked(url),
           data_match(url))))))))

\* lines 145-194, in the order of the code
extract_coords_from_url(url) ==
    OrElse(at_match(url),
    OrElse(search_match(url),
    OrElse(dir_match(url),
    OrElse(q_match(url),
    OrElse(ll_match(url),
    OrElse(place_match(url),
    OrElse(data_match(url),
           fallback_checked(url))))))))

(***************************************************************************)
(* External services.  An answer of the URL shortener is the final URL or  *)
(* an exception; an answer of the geocoding service is an exception or a   *)
(* response with a JSON body: a status and a list of result locations (a   *)
(* location is a pair, or None when the result carries no lat/lng).  The   *)
(* body is valid JSON; it need not have the shape the handlers expect: it  *)
(* may be an array instead of an object, and a result's "geometry" may be  *)
(* null.                                                                   *)
(***************************************************************************)
ExpandFailed == [ok |-> FALSE, url |-> <<>>]
ExpandedTo(u) == [ok |-> TRUE, url |-> u]

GeoFailed ==
    [ok |-> FALSE, http_ok |-> FALSE, json |-> "object", status |-> "", results |-> <<>>]
GeoHttpError ==
    [ok |-> TRUE, http_ok |-> FALSE, json |-> "object", status |-> "", results |-> <<>>]
GeoBody(st, rs) ==
    [ok |-> TRUE, http_ok |-> TRUE, json |-> "object", status |-> st, results |-> rs]
\* a 200 response whose body is a JSON array
GeoArray ==
    [ok |-> TRUE, http_ok |-> TRUE, json |-> "array", status |-> "", results |-> <<>>]
\* a result with "geometry": null
NullGeometry == <<"null">>

ExpandCall(u) == [svc |-> "expand", arg |-> u]
GeocodeCall(a) == [svc |-> "geocode", arg |-> a]

\* outcomes of resolve_coordinates: a pair, or HTTPException(status_code, detail)
Resolved(pair, calls) ==
    [ok |-> TRUE, value |-> pair, status_code |-> 200, detail |-> "", exc |-> "",
     calls |-> calls]
HTTPException(code, detail, calls) ==
    [ok |-> FALSE, value |-> None, status_code |-> code, detail |-> detail,
     exc |-> "HTTPException", calls |-> calls]
\* an exception nothing catches: the framework answers 500 Internal Server Error
Unhandled(exc, calls) ==
    [ok |-> FALSE, value |-> None, status_code |-> 500, detail |-> "Internal Server Error",
     exc |-> exc, calls |-> calls]
\* resolve_coordinates has not been called yet
NotCalled ==
    [ok |-> FALSE, value |-> None, status_code |-> 0, detail |-> "", exc |-> "",
     calls |-> <<>>]

(***************************************************************************)
(* parse_google_maps_url                                                   *)
(***************************************************************************)
\* re.match(r'^-?\d+\.?\d*,', q_val)
NumCommaPrefix(v) ==
    LET e == NumEnd(v, 1) IN e # 0 /\ e <= Len(v) /\ v[e] = ","

\* lines 233-245: the geocoding of the q parameter; every exception is swallowed
geocode_q(answer) ==
    IF /\ answer.ok /\ answer.json = "object" /\ answer.status = "OK"
       /\ answer.results # <<>> /\ Len(answer.results[1]) = 2
    THEN answer.results[1] ELSE None

\* lines 222-248: result of the extraction, else the geocoding of q
parse_q_fallback(result, q_val, env, expCalls) ==
    IF result # None THEN [result |-> result, calls |-> expCalls]
    ELSE IF q_val # None /\ ~NumCommaPrefix(q_val)
    THEN [result |-> geocode_q(env.geocode),
          calls |-> expCalls \o <<GeocodeCall(q_val)>>]
    ELSE [result |-> None, calls |-> expCalls]

\* lines 222-248 on the (expanded) URL u
parse_expanded(u, env, expCalls) ==
    parse_q_fallback(extract_coords_from_url(u), QsGet(UrlQuery(u), LitQ), env, expCalls)

parse_google_maps_url(text, env) ==
    LET stripped == Strip(text)
        short    == Contains(stripped, LitGooGl) \/ Contains(stripped, LitMapsApp)
        expCalls == IF short THEN <<ExpandCall(stripped)>> ELSE <<>>
    IN  IF ~StartsWith(stripped, LitHttp) THEN [result |-> None, calls |-> <<>>]
        ELSE IF short /\ ~env.expand.ok THEN [result |-> None, calls |-> expCalls]
        ELSE parse_expanded(IF short THEN env.expand.url ELSE stripped, env, expCalls)

(***************************************************************************)
(* resolve_coordinates                                                     *)
(***************************************************************************)
\* float(text) succeeds: [ws][+-](digits[.[digits]] | .digits)[ws] over the
\* alphabet of the model (no exponent, "inf", "nan" or "_" can be written)
IsFloat(text) ==
    LET s == Strip(text)
        a == IF s # <<>> /\ s[1] \in {"-", "+"} THEN 2 ELSE 1
        d == DigitsEnd(s, a)
        e == IF d <= Len(s) /\ s[d] = "." THEN DigitsEnd(s, d + 1) ELSE d
    IN  /\ e = Len(s) + 1
        /\ (d > a \/ e > d + 1)

FloatOf(text) == LET s == Strip(text) IN DecimalOf(s, 1, Len(s) + 1)

\* lines 279-303: the geocoding of the address text
geocode_address(address, answer) ==
    LET calls == <<GeocodeCall(address)>>
    IN  IF ~answer.ok \/ ~answer.http_ok
        THEN HTTPException(500, "geocode request failed", calls)
        ELSE IF answer.json # "object" THEN Unhandled("AttributeError", calls)
        ELSE IF answer.status # "OK" THEN HTTPException(400, "geocode status", calls)
        ELSE IF answer.results = <<>> THEN HTTPException(400, "no geocode result", calls)
        ELSE IF answer.results[1] = NullGeometry THEN Unhandled("AttributeError", calls)
        ELSE IF answer.results[1] = None THEN HTTPException(400, "no location", calls)
        ELSE Resolved(answer.results[1], calls)

\* lines 256-260: the outcome of parse_google_maps_url
from_url(parsed) ==
    IF parsed.result # None
    THEN Resolved(parsed.result, parsed.calls)
    ELSE HTTPException(400, "no coordinates in URL", parsed.calls)

\* lines 262-266: map(float, coordinates.split(","))
from_raw(parts) ==
    IF Len(parts) = 2 /\ IsFloat(parts[1]) /\ IsFloat(parts[2])
    THEN Resolved(<<FloatOf(parts[1]), FloatOf(parts[2])>>, <<>>)
    ELSE HTTPException(400, "invalid coordinates", <<>>)

\* lines 254-266: the branch of a non-empty coordinates text
from_coordinates(coordinates, env) ==
    IF StartsWith(coordinates, LitHttp)
    THEN from_url(parse_google_maps_url(coordinates, env))
    ELSE from_raw(Split(coordinates, ","))

\* a resolver that prefers the address when there is one
resolve_address_first(coordinates_text, address_text, env) ==
    LET coordinates == Strip(coordinates_text)
        address     == Strip(address_text)
    IN  IF address # <<>> THEN geocode_address(address, env.geocode)
        ELSE IF coordinates = <<>>
        THEN HTTPException(400, "no address or coordinates", <<>>)
        ELSE from_coordinates(coordinates, env)

resolve_coordinates(coordinates_text, address_text, env) ==
    LET coordinates == Strip(coordinates_text)
        address     == Strip(address_text)
    IN  IF coordinates # <<>>
        THEN from_coordinates(coordinates, env)
        ELSE IF address = <<>>
             THEN HTTPException(400, "no address or coordinates", <<>>)
             ELSE geocode_address(address, env.geocode)

(***************************************************************************)
(* The URLs of the model: a base, then path pieces, then query parameters  *)
(***************************************************************************)
UrlBase == <<"h", "t", "t", "p", ":", "/", "/", "g", ".", "j", "p">>
ShortBase == <<"h", "t", "t", "p", ":", "/", "/", "g", "o", "o", ".", "g", "l", "/", "x">>
AppBase == <<"h", "t", "t", "p", "s", ":", "/", "/", "m", "a", "p", "s", ".", "a", "p", "p", ".", "g", "o", "o", ".", "g", "l", "/", "y">>
PcAt == <<"/", "@", "3", "5", ".", "6", "8", "1", "2", ",", "1", "3", "9", ".", "7", "6", "7", "1">>
PcAtFar == <<"/", "@", "9", "1", ",", "1", "8", "1">>
PcSearch == <<"/", "m", "a", "p", "s", "/", "s", "e", "a", "r", "c", "h", "/", "3", "5", ".", "1", ",", "+", "1", "3", "6", ".", "9">>
PcDir == <<"/", "m", "a", "p", "s", "/", "d", "i", "r", "/", "3", "4", ".", "5", ",", "1", "3", "5", ".", "5">>
PcPlace == <<"/", "p", "l", "a", "c", "e", "/", "3", "3", ".", "2", "5", ",", "1", "3", "0", ".", "7", "5">>
PcPlaceName == <<"/", "p", "l", "a", "c", "e", "/", "T", "o", "k", "y", "o">>
Pc3d == <<"/", "d", "a", "t", "a", "=", "!", "3", "d", "3", "7", ".", "2">>
PcData == <<"/", "d", "a", "t", "a", "=", "!", "3", "d", "3", "6", ".", "1", "!", "4", "d", "1", "4", "0", ".", "2">>
PcGeneric == <<"/", "1", "2", ".", "3", "4", "5", ",", "6", "7", ".", "8", "9", "1">>
PcGenericFar == <<"/", "9", "5", ".", "1", "2", "3", ",", "2", "0", "0", ".", "4", "5", "6">>
PcGenericNeg == <<"/", "-", "7", ".", "1", "2", "5", ",", " ", "-", "0", ".", "5", "0", "0", "1">>
PmQPair == <<"q", "=", "3", "1", ".", "5", ",", "1", "3", "1", ".", "5">>
PmQPlus == <<"q", "=", "-", "3", "1", ".", "7", "5", ",", "+", "1", "3", "1">>
PmQName == <<"q", "=", "T", "o", "k", "y", "o">>
PmQNumName == <<"q", "=", "1", ",", "G", "i", "n", "z", "a">>
PmQFar == <<"q", "=", "9", "5", ".", "5", ",", "2", "0", "0">>
PmLl == <<"l", "l", "=", "3", "2", ".", "5", ",", "1", "3", "2", ".", "5">>
PmZoom == <<"z", "=", "1", "5">>

PathPieces == {PcAt, PcAtFar, PcSearch, PcDir, PcPlace, PcPlaceName, PcData, Pc3d, PcGeneric, PcGenericFar, PcGenericNeg}
QueryPieces == {PmQPair, PmQPlus, PmQName, PmQNumName, PmQFar, PmLl, PmZoom}

SeqsUpTo(S, n) == UNION {[1..k -> S] : k \in 0..n}

RECURSIVE Flatten(_)
Flatten(ss) == IF ss = <<>> THEN <<>> ELSE Head(ss) \o Flatten(Tail(ss))

\* ?p1&p2&...
RECURSIVE JoinParams(_, _)
JoinParams(ps, first) ==
    IF ps = <<>> THEN <<>>
    ELSE <<IF first THEN "?" ELSE "&">> \o Head(ps) \o JoinParams(Tail(ps), FALSE)

MakeUrl(base, ps, qs) == base \o Flatten(ps) \o JoinParams(qs, TRUE)

UrlsOn(base) ==
    {MakeUrl(base, ps, qs) :
        <<ps, qs>> \in {pq \in SeqsUpTo(PathPieces, MaxSegs) \X SeqsUpTo(QueryPieces, MaxSegs) :
                          Len(pq[1]) + Len(pq[2]) <= MaxSegs}}

Urls == UrlsOn(UrlBase)

(***************************************************************************)
(* State of the parts a specification does not exercise                    *)
(***************************************************************************)
NoUsers == <<>>
NoReqs == <<>>
Epoch == [ym |-> 0, rest |-> 0]
NotAsked == [asked |-> FALSE, allowed |-> FALSE, remaining |-> 0, limit |-> 0]

PipelineIdle ==
    users = NoUsers /\ usage_logs = {} /\ now = Epoch /\ req = NoReqs /\ gate_out = NotAsked
ExtractIdle == url_text = <<>> /\ coords = Pending
ResolveIdle == rc_in = None /\ rc_out = NotCalled

(***************************************************************************)
(* ExtractSpec: extract_coords_from_url applied to every URL of Urls       *)
(***************************************************************************)
ExtractInit ==
    /\ url_text \in Urls
    /\ coords = Pending
    /\ PipelineIdle
    /\ ResolveIdle

ExtractCall ==
    /\ coords = Pending
    /\ coords' = extract_coords_from_url(url_text)
    /\ UNCHANGED <<users, usage_logs, now, req, gate_out, url_text, rc_in, rc_out>>

ExtractNext == ExtractCall

ExtractSpec == ExtractInit /\ [][ExtractNext]_vars

(***************************************************************************)
(* ResolveSpec: resolve_coordinates applied to coordinate texts, address   *)
(* texts and answers of the external services                              *)
(***************************************************************************)
\* decimal numerals and the numbers they denote (scaled by Scale)
Numerals ==
    {[text |-> <<"3", "5", ".", "6", "8", "1", "2">>, value |-> 356812 * Pow10(FracDigits - 4)],
     [text |-> <<"1", "3", "9", ".", "7", "6", "7", "1">>, value |-> 1397671 * Pow10(FracDigits - 4)],
     [text |-> <<"-", "9", "0">>, value |-> -900000 * Pow10(FracDigits - 4)],
     [text |-> <<"9", "0", ".", "0", "0", "0", "1">>, value |-> 900001 * Pow10(FracDigits - 4)],
     [text |-> <<" ", "1", "8", "0">>, value |-> 1800000 * Pow10(FracDigits - 4)],
     [text |-> <<"-", "1", "8", "0", ".", "5">>, value |-> -1805000 * Pow10(FracDigits - 4)],
     [text |-> <<"+", "5">>, value |-> 50000 * Pow10(FracDigits - 4)],
     [text |-> <<".", "5">>, value |-> 5000 * Pow10(FracDigits - 4)],
     [text |-> <<"5", ".", " ">>, value |-> 50000 * Pow10(FracDigits - 4)],
     [text |-> <<"0">>, value |-> 0 * Pow10(FracDigits - 4)]}

\* texts that are not "lat,lng"
Malformed ==
    {<<"3", "5", ".", "6", "8", "1", "2">>,
     <<"1", ",", "2", ",", "3">>,
     <<"x", ",", "1">>,
     <<"1", ",">>,
     <<",">>,
     <<"1", " ", "2", ",", "3">>,
     <<"-", ",", "1">>,
     <<"1", ".", "2", ".", "3", ",", "4">>,
     <<"1", ",", ".">>}

\* raw "lat,lng" texts with the pair they denote
RawPairs ==
    {[text |-> a.text \o <<",">> \o b.text, meaning |-> <<a.value, b.value>>] :
        a \in Numerals, b \in Numerals}

\* URLs with at most one path piece and one query parameter
SmallUrls ==
    {MakeUrl(UrlBase, ps, qs) :
        ps \in SeqsUpTo(PathPieces, 1), qs \in SeqsUpTo(QueryPieces, 1)}

ShortUrls == {ShortBase, AppBase}

CoordInputs ==
    {[text |-> r.text, meaning |-> r.meaning] : r \in RawPairs}
    \cup {[text |-> x, meaning |-> None] :
            x \in Malformed \cup SmallUrls \cup ShortUrls \cup {<<>>, <<" ">>}}

AddrKyoto == <<"K", "y", "o", "t", "o">>
AddrTexts == {<<>>, <<" ">>, AddrKyoto \o <<" ">>}

GeoLocation == <<350116 * Pow10(FracDigits - 4), 1357681 * Pow10(FracDigits - 4)>>

ExpandAnswers ==
    {ExpandFailed,
     ExpandedTo(MakeUrl(UrlBase, <<PcAt>>, <<>>)),
     ExpandedTo(MakeUrl(UrlBase, <<PcPlaceName>>, <<PmQName>>)),
     ExpandedTo(MakeUrl(UrlBase, <<PcPlaceName>>, <<>>))}

GeoAnswers ==
    {GeoFailed, GeoHttpError,
     GeoBody("ZERO_RESULTS", <<>>),
     GeoBody("OK", <<>>),
     GeoBody("OK", <<None>>),
     GeoBody("OK", <<GeoLocation>>),
     GeoBody("OK", <<NullGeometry>>),
     GeoArray}

Envs == [expand : ExpandAnswers, geocode : GeoAnswers]

ResolveInit ==
    /\ \E c \in CoordInputs, a \in AddrTexts, e \in Envs :
          rc_in = [coordinates |-> c.text, meaning |-> c.meaning, address |-> a, env |-> e]
    /\ rc_out = NotCalled
    /\ PipelineIdle
    /\ ExtractIdle

ResolveCall ==
    /\ rc_out = NotCalled
    /\ rc_out' = resolve_coordinates(rc_in.coordinates, rc_in.address, rc_in.env)
    /\ UNCHANGED <<users, usage_logs, now, req, gate_out, url_text, coords, rc_in>>

ResolveNext == ResolveCall

ResolveSpec == ResolveInit /\ [][ResolveNext]_vars

(***************************************************************************)
(* Claims about extract_coords_from_url (ExtractSpec)                      *)
(***************************************************************************)
\* the shapes in the order the claim gives them; the generic pair is one that
\* passed the range validation
ShapeMatch(k, url) ==
    CASE k = 1 -> at_match(url)
      [] k = 2 -> search_match(url)
      [] k = 3 -> dir_match(url)
      [] k = 4 -> q_match(url)
      [] k = 5 -> ll_match(url)
      [] k = 6 -> place_match(url)
      [] k = 7 -> data_match(url)
      [] k = 8 -> fallback_checked(url)

FirstShape(k, url) ==
    /\ ShapeMatch(k, url) # None
    /\ \A j \in 1..(k - 1) : ShapeMatch(j, url) = None

\* C6: extract_coords_from_url returns the pair of the first shape, in the
\* order @, /maps/search/, /maps/dir/, q=, ll=, /place/, !3d!4d, generic pair,
\* that matches the URL, whatever lower-priority shapes the URL also contains.
C6_FirstShapeWins ==
    coords # Pending =>
        \A k \in 1..8 : FirstShape(k, url_text) => coords = ShapeMatch(k, url_text)

\* a URL with a !3d/!4d pair and a different valid generic pair, and no
\* higher shape: the !3d/!4d pair was returned
C6_Witness ==
    /\ coords # Pending
    /\ FirstShape(7, url_text)
    /\ fallback_checked(url_text) # None
    /\ fallback_checked(url_text) # data_match(url_text)
    /\ coords = data_match(url_text)

\* a URL whose @ pair comes after a pair of a lower shape: the @ pair was returned
C6_WitnessAt ==
    /\ coords # Pending
    /\ at_match(url_text) # None
    /\ \E k \in 2..8 : ShapeMatch(k, url_text) \notin {None, at_match(url_text)}
    /\ coords = at_match(url_text)

OnlyGenericMatches(url) ==
    /\ \A k \in 1..7 : ShapeMatch(k, url) = None
    /\ fallback_match(url) # None

\* C7: when only the generic decimal-pair heuristic matches and the matched
\* pair is outside the latitude/longitude ranges, no coordinates are returned.
C7_GenericOutOfRangeRejected ==
    (/\ coords # Pending
     /\ OnlyGenericMatches(url_text)
     /\ ~InRange(fallback_match(url_text)[1], fallback_match(url_text)[2]))
    => coords = None

C7_Witness ==
    /\ coords = None
    /\ OnlyGenericMatches(url_text)
    /\ ~InRange(fallback_match(url_text)[1], fallback_match(url_text)[2])

(***************************************************************************)
(* Claims about resolve_coordinates (ResolveSpec)                          *)
(***************************************************************************)
Called == rc_out # NotCalled

HasCall(c) == \E i \in 1..Len(rc_out.calls) : rc_out.calls[i] = c

\* C4: every pair resolve_coordinates returns has latitude in [-90, 90] and
\* longitude in [-180, 180].
C4_ResolvedInRange ==
    (Called /\ rc_out.ok) => InRange(rc_out.value[1], rc_out.value[2])

\* C5: when the trimmed coordinates text is non-empty the outcome is the one
\* the coordinates text alone gives and the address text is not sent to the
\* geocoding service; the address is geocoded only when the coordinates text
\* is empty.
C5_CoordinatesTakePrecedence ==
    Called =>
        /\ Strip(rc_in.coordinates) # <<>> =>
              /\ rc_out = resolve_coordinates(rc_in.coordinates, <<>>, rc_in.env)
              /\ ~HasCall(GeocodeCall(Strip(rc_in.address)))
        /\ HasCall(GeocodeCall(Strip(rc_in.address))) => Strip(rc_in.coordinates) = <<>>

\* both texts supplied, and the coordinates were resolved without the address
C5_Witness ==
    /\ Called
    /\ Strip(rc_in.coordinates) # <<>>
    /\ Strip(rc_in.address) # <<>>
    /\ rc_out.ok
    /\ ~HasCall(GeocodeCall(Strip(rc_in.address)))

\* only the address supplied: it was geocoded
C5_WitnessAddress ==
    /\ Called
    /\ Strip(rc_in.coordinates) = <<>>
    /\ HasCall(GeocodeCall(Strip(rc_in.address)))

\* C8: for a non-URL text "lat,lng" with lat in [-90, 90] and lng in
\* [-180, 180], resolve_coordinates returns exactly (lat, lng), makes no
\* external call, and does so whatever the address text is.
C8_RawPairExact ==
    (/\ Called
     /\ rc_in.meaning # None
     /\ InRange(rc_in.meaning[1], rc_in.meaning[2]))
    => /\ rc_out.ok
       /\ rc_out.value = rc_in.meaning
       /\ rc_out.calls = <<>>

\* a valid negative-latitude pair given together with an address
C8_Witness ==
    /\ Called
    /\ rc_in.meaning # None
    /\ InRange(rc_in.meaning[1], rc_in.meaning[2])
    /\ rc_in.meaning[1] < 0
    /\ Strip(rc_in.address) # <<>>
    /\ rc_out.ok
    /\ rc_out.value = rc_in.meaning

\* the URL parse_google_maps_url works on: the text, expanded when shortened
WorkingUrl ==
    LET c == Strip(rc_in.coordinates)
    IN  IF Contains(c, LitGooGl) \/ Contains(c, LitMapsApp)
        THEN rc_in.env.expand.url ELSE c

\* C9: for an (expanded) URL in which no coordinate shape matches and whose q
\* parameter is not itself a coordinate pair, the value of q is sent to the
\* geocoding service, and when the service answers OK the first result's
\* location is returned.
C9_QParamGeocoded ==
    LET c     == Strip(rc_in.coordinates)
        short == Contains(c, LitGooGl) \/ Contains(c, LitMapsApp)
        q_val == QsGet(UrlQuery(WorkingUrl), LitQ)
        geo   == rc_in.env.geocode
    IN  (/\ Called
         /\ StartsWith(c, LitHttp)
         /\ short => rc_in.env.expand.ok
         /\ \A k \in 1..8 : ShapeMatch(k, WorkingUrl) = None
         /\ q_val # None
         /\ CoordMatch(q_val) = None)
        => /\ HasCall(GeocodeCall(q_val))
           /\ (geo.ok /\ geo.status = "OK" /\ geo.results # <<>> /\ geo.results[1] # None)
                 => (rc_out.ok /\ rc_out.value = geo.results[1])

(***************************************************************************)
(* Usage/plan gate                                                         *)
(***************************************************************************)
MaxOf2(a, b) == IF a >= b THEN a ELSE b

\* a lookup that knows no ceiling for a plan outside the table
PLAN_LIMITS_no_default(plan, default) ==
    CASE plan = "demo" -> 5
      [] plan = "lite" -> 20
      [] plan = "standard" -> 50
      [] OTHER -> 0

\* PLAN_LIMITS.get(plan, default)
PLAN_LIMITS_get(plan, default) ==
    CASE plan = "demo" -> 5
      [] plan = "lite" -> 20
      [] plan = "standard" -> 50
      [] OTHER -> default

\* datetime(now.year, now.month, 1)
first_day_of_month(t) == [ym |-> t.ym, rest |-> 0]

\* a >= b on datetimes
NotBefore(a, b) == a.ym > b.ym \/ (a.ym = b.ym /\ a.rest >= b.rest)

\* a count that forgets the month
get_usage_count_of_all_months(logs, user_id, t) ==
    Cardinality({l \in logs : l.user_id = user_id})

get_monthly_usage_count(logs, user_id, t) ==
    Cardinality({l \in logs : /\ l.user_id = user_id
                              /\ NotBefore(l.created_at, first_day_of_month(t))})

\* a remaining count that keeps one generation too many
get_remaining_count_plus_one(logs, user, t) ==
    MaxOf2(0, PLAN_LIMITS_get(user.plan, 5) + 1 - get_monthly_usage_count(logs, user.id, t))

get_remaining_count(logs, user, t) ==
    MaxOf2(0, PLAN_LIMITS_get(user.plan, 5) - get_monthly_usage_count(logs, user.id, t))

\* a gate that still allows at the ceiling
can_generate_pdf_at_ceiling(logs, user, t) == get_remaining_count(logs, user, t) >= 0

can_generate_pdf(logs, user, t) == get_remaining_count(logs, user, t) > 0

\* the gate as the handlers use it: lines 686-695 and 608-609
authorize(logs, user, t) ==
    [asked     |-> TRUE,
     allowed   |-> can_generate_pdf(logs, user, t),
     remaining |-> get_remaining_count(logs, user, t),
     limit     |-> PLAN_LIMITS_get(user.plan, 5)]

(***************************************************************************)
(* GateSpec: the gate applied to an account with any plan and any number   *)
(* of usage records of this month, of earlier months and of other accounts *)
(***************************************************************************)
MaxUsed == 51     \* usage records of the account in the current month
MaxOld == 1       \* usage records of the account in the month before
MaxOther == 1     \* usage records of another account in the current month
MaxMonth == 2     \* the last month the clock reaches

PlanValues == {"demo", "lite", "standard", "LITE", "premium"}

User(id, plan) == [id |-> id, plan |-> plan]

\* usage_logs rows ids lo+1..lo+n of user_id, created at t
Rows(lo, n, user_id, t) ==
    {[id |-> i, user_id |-> user_id, created_at |-> t, by |-> 0] : i \in (lo + 1)..(lo + n)}

GateInit ==
    /\ \E p \in PlanValues : users = [u \in {1, 2} |-> User(u, IF u = 1 THEN p ELSE "demo")]
    /\ \E r \in 0..1 : now = [ym |-> 1, rest |-> r]
    /\ \E n \in 0..MaxUsed, m \in 0..MaxOld, o \in 0..MaxOther :
          usage_logs = Rows(0, n, 1, [ym |-> 1, rest |-> 0])
                       \cup Rows(n, m, 1, [ym |-> 0, rest |-> 1])
                       \cup Rows(n + m, o, 2, [ym |-> 1, rest |-> 0])
    /\ req = NoReqs /\ gate_out = NotAsked
    /\ ExtractIdle /\ ResolveIdle

GateCall ==
    /\ gate_out = NotAsked
    /\ gate_out' = authorize(usage_logs, users[1], now)
    /\ UNCHANGED <<users, usage_logs, now, req, url_text, coords, rc_in, rc_out>>

\* the UTC month changes; the next request asks the gate anew
NextMonth ==
    /\ now.ym < MaxMonth
    /\ now' = [ym |-> now.ym + 1, rest |-> 0]
    /\ gate_out' = NotAsked
    /\ UNCHANGED <<users, usage_logs, req, url_text, coords, rc_in, rc_out>>

GateNext == GateCall \/ NextMonth

GateSpec == GateInit /\ [][GateNext]_vars

\* the usage records the claim counts: those of the account in the current month
UsedThisMonth(u) ==
    Cardinality({l \in usage_logs : l.user_id = u /\ l.created_at.ym = now.ym})

\* C3: with plan ceiling L and u usage records in the current month the gate
\* allows exactly when u < L, with remaining = L - u; so it denies at u = L and
\* allows with remaining = 1 at u = L - 1.
C3_GateAtCeiling ==
    LET L == PLAN_LIMITS_get(users[1].plan, 5)
        u == UsedThisMonth(1)
    IN  gate_out.asked =>
            /\ gate_out.allowed <=> u < L
            /\ gate_out.allowed => gate_out.remaining = L - u
            /\ u = L => (~gate_out.allowed /\ gate_out.limit = L)
            /\ u = L - 1 => (gate_out.allowed /\ gate_out.remaining = 1)

\* a standard account (ceiling 50) denied at 50 records of this month
C3_Witness ==
    /\ gate_out.asked
    /\ users[1].plan = "standard"
    /\ UsedThisMonth(1) = 50
    /\ ~gate_out.allowed
    /\ Cardinality(usage_logs) > 50

\* a lite account (ceiling 20) allowed its last generation at 19 records
C3_WitnessLast ==
    /\ gate_out.asked
    /\ users[1].plan = "lite"
    /\ UsedThisMonth(1) = 19
    /\ gate_out.allowed
    /\ gate_out.remaining = 1

\* C12: the gate finds a ceiling for every plan value: 5 for demo, 20 for lite,
\* 50 for standard and the default 5 for any other value; it answers with that
\* ceiling as the limit and allows exactly while the monthly count is below it.
C12_CeilingLookupTotal ==
    LET plan    == users[1].plan
        ceiling == IF plan = "lite" THEN 20 ELSE IF plan = "standard" THEN 50 ELSE 5
        u       == UsedThisMonth(1)
    IN  gate_out.asked =>
            /\ gate_out.limit = ceiling
            /\ gate_out.allowed <=> u < ceiling
            /\ gate_out.remaining = (IF u < ceiling THEN ceiling - u ELSE 0)

\* an account with a plan outside the table, denied at the default ceiling
C12_Witness ==
    /\ gate_out.asked
    /\ users[1].plan = "premium"
    /\ UsedThisMonth(1) = 5
    /\ ~gate_out.allowed
    /\ gate_out.limit = 5

\* an account whose plan differs from a table entry only in case, allowed
\* below the default ceiling
C12_WitnessCase ==
    /\ gate_out.asked
    /\ users[1].plan = "LITE"
    /\ UsedThisMonth(1) = 4
    /\ gate_out.allowed
    /\ gate_out.remaining = 1

\* the account's usage records stamped at or after the first instant of the
\* current month (no record is stamped in the future)
RowsSinceMonthStart(u) ==
    {l \in usage_logs : l.user_id = u /\ l.created_at.ym >= now.ym}

\* C13: the count the gate uses is the number of the account's usage records
\* stamped at or after the first instant of the current UTC month; and when
\* the month changes for an account the gate has just denied, the gate allows
\* it again with its full ceiling.
C13_CountsCurrentMonthOnly ==
    /\ [](/\ get_monthly_usage_count(usage_logs, 1, now) = Cardinality(RowsSinceMonthStart(1))
          /\ gate_out.asked =>
                gate_out.remaining =
                    MaxOf2(0, gate_out.limit - Cardinality(RowsSinceMonthStart(1))))
    /\ [][(gate_out.asked /\ ~gate_out.allowed /\ now'.ym > now.ym) =>
              /\ can_generate_pdf(usage_logs', users'[1], now')
              /\ get_remaining_count(usage_logs', users'[1], now') = gate_out.limit]_vars

\* a lite account that filled its ceiling of 20 in month 1 is allowed all 20
\* generations in month 2
C13_Witness ==
    /\ gate_out.asked
    /\ now.ym = 2
    /\ users[1].plan = "lite"
    /\ Cardinality({l \in usage_logs : l.user_id = 1 /\ l.created_at.ym = 1}) = 20
    /\ gate_out.allowed
    /\ gate_out.remaining = 20

(***************************************************************************)
(* Map image fetcher and plans                                             *)
(***************************************************************************)
\* what the static-map service may do
\* ("truncated_image": the header is an image's, the pixel data is cut short)
FetchAnswers ==
    {"png_rgba", "png_rgb", "transport_error", "http_error", "not_an_image", "truncated_image"}

\* fetch_map_image: an RGB image, or HTTPException(500) naming the zoom; Image.open
\* (line 324) reads the header only, the pixels are decoded by paste/convert
\* (lines 331-336), outside the try
fetch_map_image(latitude, longitude, zoom, answer) ==
    IF answer \in {"transport_error", "http_error"}
    THEN [ok |-> FALSE, status_code |-> 500, detail |-> "map request failed",
          exc |-> "HTTPException", zoom |-> zoom]
    ELSE IF answer = "not_an_image"
    THEN [ok |-> FALSE, status_code |-> 500, detail |-> "map image unreadable",
          exc |-> "HTTPException", zoom |-> zoom]
    ELSE IF answer = "truncated_image"
    THEN [ok |-> FALSE, status_code |-> 500, detail |-> "Internal Server Error",
          exc |-> "OSError", zoom |-> zoom]
    ELSE [ok |-> TRUE, status_code |-> 200, detail |-> "RGB", exc |-> "", zoom |-> zoom]

\* str.lower() on the plan names of the model
Lower(plan) == IF plan = "LITE" THEN "lite" ELSE plan

\* lines 701-704: Plan(plan.lower()), Plan.DEMO on ValueError
PlanEnum(plan) ==
    IF Lower(plan) \in {"demo", "lite", "standard"} THEN Lower(plan) ELSE "demo"

PLAN_CONFIG(plan) ==
    CASE plan = "demo" -> [map_count |-> 2, watermark |-> TRUE, monthly_limit |-> 5]
      [] plan = "lite" -> [map_count |-> 2, watermark |-> FALSE, monthly_limit |-> 20]
      [] plan = "standard" -> [map_count |-> 2, watermark |-> FALSE, monthly_limit |-> 50]

(***************************************************************************)
(* Spec: the /generate-pdf requests.  A request is one run of              *)
(* generate_pdf_endpoint; its steps are the points where it reads or       *)
(* writes the store or calls an external service.                          *)
(***************************************************************************)
NumReqs == 2       \* requests
MaxHeadroom == 1   \* generations an account has left at the start, at most

Reqs == 1..NumReqs
Users == {1, 2}
Anonymous == 0     \* no valid session cookie

Event(step, ok) == [step |-> step, ok |-> ok]

NewReq ==
    [pc |-> "new", user_id |-> 0, plan |-> "", seen |-> 0, coordinates |-> None,
     maps |-> <<>>, document |-> <<>>, status_code |-> 0, detail |-> "", trace |-> <<>>]

\* the request ends with this response
Finished(q, code, detail) == [q EXCEPT !.pc = "done", !.status_code = code, !.detail = detail]

Logged(q, step, ok) == [q EXCEPT !.trace = Append(@, Event(step, ok))]

\* the form data and the answers of the services a request may meet
RawGood == <<"3", "5", ".", "6", "8", "1", "2", ",", "1", "3", "9", ".", "7", "6", "7", "1">>
RawBad == <<"x", ",", "1">>
ReqCoordTexts ==
    {<<>>, RawGood, RawBad, MakeUrl(UrlBase, <<>>, <<PmQName>>), ShortBase}
ReqAddrTexts == {<<>>, AddrKyoto}
\* the place every request of the model asks for, however it names it
TokyoStation == <<356812 * Pow10(FracDigits - 4), 1397671 * Pow10(FracDigits - 4)>>
ReqEnvs ==
    [expand : {ExpandFailed, ExpandedTo(MakeUrl(UrlBase, <<PcAt>>, <<>>))},
     geocode : {GeoFailed, GeoBody("ZERO_RESULTS", <<>>), GeoBody("OK", <<TokyoStation>>),
                GeoBody("OK", <<NullGeometry>>)}]

\* the outcomes resolve_coordinates has on them
ReqResolutions ==
    {resolve_coordinates(c, a, e) : c \in ReqCoordTexts, a \in ReqAddrTexts, e \in ReqEnvs}

\* account 1 holds any plan and is within MaxHeadroom of its ceiling; account 2
\* has just registered (create_user: the default plan, no usage yet)
Init ==
    /\ \E plan \in PlanValues, left \in 0..MaxHeadroom :
          /\ users = [u \in Users |-> User(u, IF u = 1 THEN plan ELSE "demo")]
          /\ usage_logs = Rows(0, PLAN_LIMITS_get(plan, 5) - left, 1, [ym |-> 1, rest |-> 0])
    /\ now = [ym |-> 1, rest |-> 1]
    /\ req = [r \in Reqs |-> NewReq]
    /\ gate_out = NotAsked
    /\ ExtractIdle /\ ResolveIdle

\* a handler that never asks the quota gate
GateWithoutQuota(r) ==
    /\ req[r].pc = "new"
    /\ \E u \in Users \cup {Anonymous} :
          req' = [req EXCEPT ![r] =
                    IF u = Anonymous
                    THEN Finished(@, 303, "login")
                    ELSE Logged([@ EXCEPT !.pc = "resolve", !.user_id = u,
                                          !.plan = PlanEnum(users[u].plan),
                                          !.seen = get_monthly_usage_count(usage_logs, u, now)],
                                "authorize", TRUE)]
    /\ UNCHANGED <<users, usage_logs, now, gate_out, url_text, coords, rc_in, rc_out>>

\* a gate whose denial lets the request go on
GateDenialContinues(r) ==
    /\ req[r].pc = "new"
    /\ \E u \in Users \cup {Anonymous} :
          req' = [req EXCEPT ![r] =
                    IF u = Anonymous
                    THEN Finished(@, 303, "login")
                    ELSE Logged([@ EXCEPT !.pc = "resolve", !.user_id = u,
                                          !.plan = PlanEnum(users[u].plan),
                                          !.seen = get_monthly_usage_count(usage_logs, u, now)],
                                "authorize", can_generate_pdf(usage_logs, users[u], now))]
    /\ UNCHANGED <<users, usage_logs, now, gate_out, url_text, coords, rc_in, rc_out>>

\* lines 679-713 for the session of u: login check, quota gate, plan
Admit(q, u) ==
    IF u = Anonymous
    THEN Finished(q, 303, "login")
    ELSE IF ~can_generate_pdf(usage_logs, users[u], now)
    THEN Finished(Logged([q EXCEPT !.user_id = u], "authorize", FALSE), 200, "limit_reached")
    ELSE Logged([q EXCEPT !.pc = "resolve", !.user_id = u,
                          !.plan = PlanEnum(users[u].plan),
                          !.seen = get_monthly_usage_count(usage_logs, u, now)],
                "authorize", TRUE)

Gate(r) ==
    /\ req[r].pc = "new"
    /\ \E u \in Users \cup {Anonymous} : req' = [req EXCEPT ![r] = Admit(@, u)]
    /\ UNCHANGED <<users, usage_logs, now, gate_out, url_text, coords, rc_in, rc_out>>

\* a generate_pdf that fetches the zoom-17 map alone
AfterResolveOneMap(q, out) ==
    IF out.ok
    THEN Logged([q EXCEPT !.pc = "fetch17", !.coordinates = out.value], "resolve", TRUE)
    ELSE Finished(Logged(q, "resolve", FALSE), out.status_code, out.detail)

\* generate_pdf after resolve_coordinates returned or raised (lines 366-378)
AfterResolve(q, out) ==
    LET first == IF PLAN_CONFIG(q.plan).map_count = 1 THEN "fetch17" ELSE "fetch14"
    IN  IF out.ok
        THEN Logged([q EXCEPT !.pc = first, !.coordinates = out.value], "resolve", TRUE)
        ELSE Finished(Logged(q, "resolve", FALSE), out.status_code, out.detail)

Resolve(r) ==
    /\ req[r].pc = "resolve"
    /\ \E out \in ReqResolutions : req' = [req EXCEPT ![r] = AfterResolve(@, out)]
    /\ UNCHANGED <<users, usage_logs, now, gate_out, url_text, coords, rc_in, rc_out>>

StepOfZoom(zoom) == IF zoom = 14 THEN "fetch14" ELSE "fetch17"

\* a generate_pdf that goes on after a failed map fetch
AfterFetchSwallowing(q, zoom, img) ==
    Logged([q EXCEPT !.pc = IF zoom = 14 THEN "fetch17" ELSE "compose",
                     !.maps = Append(@, zoom)], StepOfZoom(zoom), img.ok)

\* generate_pdf after fetch_map_image returned or raised (lines 372-378)
AfterFetch(q, zoom, img) ==
    IF img.ok
    THEN Logged([q EXCEPT !.pc = IF zoom = 14 THEN "fetch17" ELSE "compose",
                          !.maps = Append(@, zoom)], StepOfZoom(zoom), TRUE)
    ELSE Finished(Logged(q, StepOfZoom(zoom), FALSE), img.status_code, img.detail)

Fetch(r, zoom) ==
    /\ req[r].pc = StepOfZoom(zoom)
    /\ \E answer \in FetchAnswers :
          req' = [req EXCEPT ![r] =
                    AfterFetch(@, zoom,
                               fetch_map_image(@.coordinates[1], @.coordinates[2], zoom, answer))]
    /\ UNCHANGED <<users, usage_logs, now, gate_out, url_text, coords, rc_in, rc_out>>

\* the page generate_pdf composes from the maps, the QR code and the plan
ComposedDocument(q) ==
    [maps |-> q.maps, qr |-> q.coordinates, watermark |-> PLAN_CONFIG(q.plan).watermark]

\* lines 380-490: the page is composed and serialized, unless memory runs out
Compose(r) ==
    /\ req[r].pc = "compose"
    /\ \E fits \in BOOLEAN :
          req' = [req EXCEPT ![r] =
                    IF fits
                    THEN Logged([@ EXCEPT !.pc = "log",
                                          !.document = <<ComposedDocument(req[r])>>],
                                "compose", TRUE)
                    ELSE Finished(Logged(@, "compose", FALSE), 500, "out of memory")]
    /\ UNCHANGED <<users, usage_logs, now, gate_out, url_text, coords, rc_in, rc_out>>

\* the row db.add(UsageLog(user_id=user.id)) inserts
NewRow(logs, user_id, t, r) ==
    [id |-> Cardinality(logs) + 1, user_id |-> user_id, created_at |-> t, by |-> r]

\* a handler that forgets the usage record
LogUsageSkipped(r) ==
    /\ req[r].pc = "log"
    /\ req' = [req EXCEPT ![r] = Logged([@ EXCEPT !.pc = "respond"], "append", TRUE)]
    /\ UNCHANGED <<users, usage_logs, now, gate_out, url_text, coords, rc_in, rc_out>>

\* a handler that records the usage before it generates
LogUsageBeforeGenerating(r) ==
    \/ /\ req[r].pc = "resolve"
       /\ \A l \in usage_logs : l.by # r
       /\ usage_logs' = usage_logs \cup {NewRow(usage_logs, req[r].user_id, now, r)}
       /\ UNCHANGED <<users, now, req, gate_out, url_text, coords, rc_in, rc_out>>
    \/ /\ req[r].pc = "log"
       /\ req' = [req EXCEPT ![r] = Logged([@ EXCEPT !.pc = "respond"], "append", TRUE)]
       /\ UNCHANGED <<users, usage_logs, now, gate_out, url_text, coords, rc_in, rc_out>>

\* lines 718-722: db.add(UsageLog(user_id=user.id)); db.commit()
LogUsage(r) ==
    /\ req[r].pc = "log"
    /\ usage_logs' = usage_logs \cup {NewRow(usage_logs, req[r].user_id, now, r)}
    /\ req' = [req EXCEPT ![r] = Logged([@ EXCEPT !.pc = "respond"], "append", TRUE)]
    /\ UNCHANGED <<users, now, gate_out, url_text, coords, rc_in, rc_out>>

\* lines 724-735: the StreamingResponse
Respond(r) ==
    /\ req[r].pc = "respond"
    /\ req' = [req EXCEPT ![r] = Finished(Logged(@, "respond", TRUE), 200, "pdf")]
    /\ UNCHANGED <<users, usage_logs, now, gate_out, url_text, coords, rc_in, rc_out>>

Next ==
    \/ \E r \in Reqs : Gate(r)
    \/ \E r \in Reqs : Resolve(r)
    \/ \E r \in Reqs : Fetch(r, 14)
    \/ \E r \in Reqs : Fetch(r, 17)
    \/ \E r \in Reqs : Compose(r)
    \/ \E r \in Reqs : LogUsage(r)
    \/ \E r \in Reqs : Respond(r)

Spec == Init /\ [][Next]_vars

(***************************************************************************)
(* SeqSpec: the same requests when each account sends its requests one at  *)
(* a time: a request of an account starts only when no other request of    *)
(* that account is between its gate and its response                       *)
(***************************************************************************)
InFlight(r) == req[r].pc \notin {"new", "done"}

GateInTurn(r) ==
    /\ req[r].pc = "new"
    /\ \E u \in Users \cup {Anonymous} :
          /\ \A q \in Reqs \ {r} : InFlight(q) => req[q].user_id # u
          /\ req' = [req EXCEPT ![r] = Admit(@, u)]
    /\ UNCHANGED <<users, usage_logs, now, gate_out, url_text, coords, rc_in, rc_out>>

SeqNext ==
    \/ \E r \in Reqs : GateInTurn(r)
    \/ \E r \in Reqs : Resolve(r)
    \/ \E r \in Reqs : Fetch(r, 14)
    \/ \E r \in Reqs : Fetch(r, 17)
    \/ \E r \in Reqs : Compose(r)
    \/ \E r \in Reqs : LogUsage(r)
    \/ \E r \in Reqs : Respond(r)

SeqSpec == Init /\ [][SeqNext]_vars

(***************************************************************************)
(* The QR payload: f"https://www.google.com/maps?q={latitude},{longitude}"  *)
(* with str(float): the shortest decimal that reads back as the float, in  *)
(* scientific notation when the decimal exponent is below -4 (the model    *)
(* has no float of 1e16 or more)                                           *)
(***************************************************************************)
DigitChars == <<"0", "1", "2", "3", "4", "5", "6", "7", "8", "9">>

\* the decimal digits of the natural number n
RECURSIVE IntText(_)
IntText(n) ==
    IF n < 10 THEN <<DigitChars[n + 1]>> ELSE IntText(n \div 10) \o <<DigitChars[(n % 10) + 1]>>

\* the w digits of f, leading zeros kept
RECURSIVE FracText(_, _)
FracText(f, w) ==
    IF w = 0 THEN <<>> ELSE FracText(f \div 10, w - 1) \o <<DigitChars[(f % 10) + 1]>>

RECURSIVE StripZeros(_)
StripZeros(s) ==
    IF s # <<>> /\ s[Len(s)] = "0" THEN StripZeros(SubSeq(s, 1, Len(s) - 1)) ELSE s

\* "d.ddd" form: integer part, ".", fraction without trailing zeros ("0" if none)
PlainRepr(m) ==
    LET f == StripZeros(FracText(m % Scale, FracDigits))
    IN  IntText(m \div Scale) \o <<".">> \o (IF f = <<>> THEN <<"0">> ELSE f)

\* "d.ddde-XX" form of m / Scale = d.ddd * 10^-e
SciRepr(digits, e) ==
    LET rest == StripZeros(Tail(digits))
    IN  <<Head(digits)>> \o (IF rest = <<>> THEN <<>> ELSE <<".">> \o rest)
        \o <<"e", "-">> \o (IF e < 10 THEN <<"0">> ELSE <<>>) \o IntText(e)

\* str(x) of the float x = v / Scale
FloatRepr(v) ==
    LET m == IF v < 0 THEN 0 - v ELSE v
        e == FracDigits - (Len(IntText(m)) - 1)
    IN  (IF v < 0 THEN <<"-">> ELSE <<>>)
        \o (IF m # 0 /\ e > 4 THEN SciRepr(IntText(m), e) ELSE PlainRepr(m))

LitMapsQ ==
    <<"h", "t", "t", "p", "s", ":", "/", "/", "w", "w", "w", ".", "g", "o", "o", "g", "l", "e",
      ".", "c", "o", "m", "/", "m", "a", "p", "s", "?", "q", "=">>

\* line 463
maps_url(latitude, longitude) ==
    LitMapsQ \o FloatRepr(latitude) \o <<",">> \o FloatRepr(longitude)

(***************************************************************************)
(* QrSpec: generate_pdf builds the QR payload for the resolved pair, and   *)
(* the payload is given to extract_coords_from_url                         *)
(***************************************************************************)
\* latitudes and longitudes in range, in units of 10^-6 degree
QrLatitudes ==
    {35681236, -33868800, 0, 50, -12, 100, 90000000, -90000000, 35000000, 1, 12500000, -7}
QrLongitudes ==
    {139767125, -180000000, 0, 10, 151209300, 5500000, 180000000, -99, 100, -1}

QrPairs ==
    {<<lat * Pow10(FracDigits - 6), lng * Pow10(FracDigits - 6)>> :
        lat \in QrLatitudes, lng \in QrLongitudes}

QrInit ==
    /\ \E pair \in QrPairs :
          req = <<[NewReq EXCEPT !.pc = "compose", !.coordinates = pair]>>
    /\ url_text = <<>>
    /\ coords = Pending
    /\ users = NoUsers /\ usage_logs = {} /\ now = Epoch /\ gate_out = NotAsked
    /\ ResolveIdle

\* generate_pdf writes the payload
QrEncode ==
    /\ url_text = <<>>
    /\ url_text' = maps_url(req[1].coordinates[1], req[1].coordinates[2])
    /\ UNCHANGED <<users, usage_logs, now, req, gate_out, coords, rc_in, rc_out>>

\* the payload is parsed back
QrParse ==
    /\ url_text # <<>>
    /\ coords = Pending
    /\ coords' = extract_coords_from_url(url_text)
    /\ UNCHANGED <<users, usage_logs, now, req, gate_out, url_text, rc_in, rc_out>>

QrNext == QrEncode \/ QrParse

QrSpec == QrInit /\ [][QrNext]_vars

\* C15: the pair extracted from the QR payload is the pair the payload was
\* built from.
C15_QrRoundTrip ==
    coords # Pending => coords = req[1].coordinates

(***************************************************************************)

(* Claims about the /generate-pdf requests (Spec)                          *)
(***************************************************************************)
\* the usage records request r appended
RowsBy(r) == {l \in usage_logs : l.by = r}

LastEvent(r) == req[r].trace[Len(req[r].trace)]

\* request r ended because step failed
FailedAt(r, step) ==
    /\ req[r].pc = "done"
    /\ req[r].trace # <<>>
    /\ LastEvent(r) = Event(step, FALSE)

GenerationSteps == {"resolve", "fetch14", "fetch17", "compose"}

\* C1: a request in which the coordinate resolution, a map fetch or the
\* composition failed has appended no usage record: every usage record of its
\* account was there before or was appended by another request.
C1_NoRecordOnFailure ==
    \A r \in Reqs : \A step \in GenerationSteps :
        FailedAt(r, step) =>
            /\ RowsBy(r) = {}
            /\ \A l \in usage_logs :
                  l.user_id = req[r].user_id => (l.by = 0 \/ (l.by \in Reqs \ {r}))

\* a request failed at the second map fetch while another request of the same
\* account appended its record
C1_Witness ==
    \E r \in Reqs :
        /\ FailedAt(r, "fetch17")
        /\ RowsBy(r) = {}
        /\ \E l \in usage_logs : l.user_id = req[r].user_id /\ l.by \in Reqs \ {r}

\* a request failed in the composition
C1_WitnessCompose == \E r \in Reqs : FailedAt(r, "compose") /\ RowsBy(r) = {}

\* C2: a request whose document was composed appends exactly one usage record,
\* for its own account, after the composition and before the response: none
\* exists while the append is pending, exactly one from then on, and a
\* returned document implies the record.
C2_ExactlyOneRecord ==
    \A r \in Reqs :
        /\ RowsBy(r) # {} => req[r].document # <<>>
        /\ req[r].pc = "log" => (req[r].document # <<>> /\ RowsBy(r) = {})
        /\ req[r].pc = "respond" => req[r].document # <<>>
        /\ (req[r].pc = "done" /\ req[r].detail = "pdf") => req[r].document # <<>>
        /\ (req[r].document # <<>> /\ req[r].pc \in {"respond", "done"}) =>
              /\ Cardinality(RowsBy(r)) = 1
              /\ \A l \in RowsBy(r) : l.user_id = req[r].user_id

\* two requests of the two accounts both returned a document, one record each
C2_Witness ==
    /\ \A r \in {1, 2} :
          /\ req[r].pc = "done" /\ req[r].detail = "pdf"
          /\ Cardinality(RowsBy(r)) = 1
    /\ req[1].user_id # req[2].user_id

\* C10: a failure of the resolver or of a map fetch is the last thing the
\* request does and is its response: no map is fetched after a resolver
\* failure, the zoom-17 map is not fetched after a failure of the zoom-14 map,
\* and no document is composed.
C10_FailureAborts ==
    \A r \in Reqs :
        \A i \in 1..Len(req[r].trace) :
            LET e == req[r].trace[i]
            IN  (~e.ok /\ e.step \in {"resolve", "fetch14", "fetch17"}) =>
                    /\ i = Len(req[r].trace)
                    /\ req[r].pc = "done"
                    /\ req[r].document = <<>>
                    /\ \A j \in 1..Len(req[r].trace) : req[r].trace[j].step # "compose"
                    /\ e.step = "resolve" =>
                          /\ req[r].maps = <<>>
                          /\ \E out \in ReqResolutions :
                                /\ ~out.ok
                                /\ req[r].status_code = out.status_code
                                /\ req[r].detail = out.detail
                    /\ e.step = "fetch14" =>
                          /\ req[r].maps = <<>>
                          /\ req[r].status_code = 500
                          /\ req[r].detail \in {"map request failed", "map image unreadable",
                                               "Internal Server Error"}
                    /\ e.step = "fetch17" =>
                          /\ req[r].maps = <<14>>
                          /\ req[r].status_code = 500
                          /\ req[r].detail \in {"map request failed", "map image unreadable",
                                               "Internal Server Error"}

\* a request stopped by the failure of the zoom-14 fetch
C10_Witness ==
    \E r \in Reqs :
        /\ FailedAt(r, "fetch14")
        /\ req[r].trace = <<Event("authorize", TRUE), Event("resolve", TRUE),
                            Event("fetch14", FALSE)>>
        /\ req[r].status_code = 500

\* a request stopped by the resolver with its 400
C10_WitnessResolver ==
    \E r \in Reqs :
        /\ FailedAt(r, "resolve")
        /\ req[r].status_code = 400
        /\ req[r].maps = <<>>

\* the quota gate denied request r
Denied(r) ==
    \E i \in 1..Len(req[r].trace) : req[r].trace[i] = Event("authorize", FALSE)

\* C11: a request the quota gate denied has ended with the limit page; the
\* denial is its only step (no resolver, map fetch or composition ran for it),
\* it has appended no usage record, and nothing happens to it afterwards.
C11_DenialTerminal ==
    /\ [](\A r \in Reqs :
            Denied(r) =>
                /\ req[r].pc = "done"
                /\ req[r].detail = "limit_reached"
                /\ req[r].trace = <<Event("authorize", FALSE)>>
                /\ req[r].coordinates = None
                /\ req[r].maps = <<>>
                /\ req[r].document = <<>>
                /\ RowsBy(r) = {})
    /\ [][\A r \in Reqs : Denied(r) => req'[r] = req[r]]_vars

\* a denied request whose account received no record while another request
\* went on to return its document
C11_Witness ==
    \E r \in Reqs : \E q \in Reqs \ {r} :
        /\ Denied(r)
        /\ req[r].user_id = 1
        /\ ~can_generate_pdf(usage_logs, users[1], now)
        /\ req[q].pc = "done" /\ req[q].detail = "pdf"

\* the failure of the taxonomy a response detail stands for ("none": the
\* response is the framework's answer to an exception nothing caught)
TaxonomyOf(detail) ==
    CASE detail = "invalid coordinates" -> "InvalidCoordinateFormat"
      [] detail = "no coordinates in URL" -> "UrlResolutionFailed"
      [] detail \in {"geocode request failed", "geocode status",
                     "no geocode result", "no location"} -> "GeocodingFailed"
      [] detail = "no address or coordinates" -> "NoLocationProvided"
      [] detail \in {"map request failed", "map image unreadable"} -> "ImageFetchFailed"
      [] OTHER -> "none"

\* C14: a request that the resolver or a map fetch ended carries a failure of
\* the taxonomy: resolver failures are InvalidCoordinateFormat,
\* UrlResolutionFailed, GeocodingFailed or NoLocationProvided, fetch failures
\* are ImageFetchFailed, whatever the external services answered.
C14_FailuresInTaxonomy ==
    \A r \in Reqs :
        /\ FailedAt(r, "resolve") =>
              TaxonomyOf(req[r].detail) \in {"InvalidCoordinateFormat", "UrlResolutionFailed",
                                             "GeocodingFailed", "NoLocationProvided"}
        /\ (FailedAt(r, "fetch14") \/ FailedAt(r, "fetch17")) =>
              TaxonomyOf(req[r].detail) = "ImageFetchFailed"

\* the steps of a generation request, in the order of the code
StepOrder == <<"authorize", "resolve", "fetch14", "fetch17", "compose", "append", "respond">>

\* the steps of request r that succeeded
Succeeded(r) == {req[r].trace[i].step : i \in {j \in 1..Len(req[r].trace) : req[r].trace[j].ok}}

\* C16: the steps a request has taken are an initial part of: gate, resolver,
\* zoom-14 fetch, zoom-17 fetch, composition, usage record, response; each
\* occurs at most once, and each but the last taken has succeeded.  The maps,
\* the document and the usage record exist exactly when their step succeeded.
C16_StepsInOrder ==
    \A r \in Reqs :
        LET t == req[r].trace
        IN  /\ Len(t) <= Len(StepOrder)
            /\ \A i \in 1..Len(t) :
                  /\ t[i].step = StepOrder[i]
                  /\ i < Len(t) => t[i].ok
            /\ req[r].coordinates # None <=> "resolve" \in Succeeded(r)
            /\ req[r].maps = (IF "fetch17" \in Succeeded(r) THEN <<14, 17>>
                              ELSE IF "fetch14" \in Succeeded(r) THEN <<14>> ELSE <<>>)
            /\ req[r].document # <<>> <=> "compose" \in Succeeded(r)
            /\ RowsBy(r) # {} <=> "append" \in Succeeded(r)

\* a request that went through all seven steps
C16_Witness ==
    \E r \in Reqs :
        /\ req[r].pc = "done"
        /\ req[r].detail = "pdf"
        /\ Len(req[r].trace) = 7
        /\ req[r].maps = <<14, 17>>
        /\ Cardinality(RowsBy(r)) = 1

\* C17: when the requests of an account do not overlap, the number of its
\* usage records of the month never exceeds the ceiling of its plan.
C17_SequentialWithinCeiling ==
    \A u \in Users :
        /\ UsedThisMonth(u) <= PLAN_LIMITS_get(users[u].plan, 5)
        /\ \A r \in Reqs : \A q \in Reqs \ {r} :
              (InFlight(r) /\ InFlight(q)) => req[r].user_id # req[q].user_id

\* account 1 used its last generation in one request and was denied in the next
C17_Witness ==
    \E r \in Reqs : \E q \in Reqs \ {r} :
        /\ req[r].user_id = 1 /\ req[r].pc = "done" /\ req[r].detail = "pdf"
        /\ req[q].user_id = 1 /\ Denied(q)
        /\ UsedThisMonth(1) = PLAN_LIMITS_get(users[1].plan, 5)

\* the requests made in the session of account u
RequestsOf(u) == {r \in Reqs : req[r].user_id = u}

\* C18: with N requests of an account, overlapping in any way, the number of
\* the account's usage records of the month never exceeds the ceiling of its
\* plan by more than N - 1, and every request that appended a record had read
\* a count below the ceiling at the gate.
C18_OvershootBounded ==
    /\ \A u \in Users :
          UsedThisMonth(u) <=
              PLAN_LIMITS_get(users[u].plan, 5) + MaxOf2(0, Cardinality(RequestsOf(u)) - 1)
    /\ \A r \in Reqs :
          RowsBy(r) # {} =>
              req[r].seen < PLAN_LIMITS_get(users[req[r].user_id].plan, 5)

\* two overlapping requests of account 1 both read ceiling - 1 and both
\* appended: the account is one record over its ceiling
C18_Witness ==
    /\ RequestsOf(1) = {1, 2}
    /\ \A r \in {1, 2} :
          /\ RowsBy(r) # {}
          /\ req[r].seen = PLAN_LIMITS_get(users[1].plan, 5) - 1
    /\ UsedThisMonth(1) = PLAN_LIMITS_get(users[1].plan, 5) + 1


(***************************************************************************)
(* WebhookSpec: registration and the Stripe webhook.  Here the rows of     *)
(* users carry the subscription columns, users is the table in id order    *)
(* (ids are 1, 2, ...), and req holds the event the webhook last handled.  *)
(* A missing key of an event and a NULL column are both Null.              *)
(***************************************************************************)
MaxAccounts == 2   \* accounts that register

Null == "NULL"

STRIPE_PRICE_IDS == {"lite", "standard"}

Account(id, plan, subscription_id, status) ==
    [id |-> id, plan |-> plan, stripe_subscription_id |-> subscription_id,
     subscription_status |-> status]

\* create_user: the column defaults of User
create_user(db) == Append(db, Account(Len(db) + 1, "demo", Null, Null))

\* int(user_id) of the metadata written as str(user.id)
IntOfId(text) == CHOOSE id \in 1..MaxAccounts : ToString(id) = text

\* data.object of an event, read with .get
StripeObject(id, status, subscription, user_id, plan) ==
    [id |-> id, status |-> status, subscription |-> subscription,
     metadata |-> [user_id |-> user_id, plan |-> plan]]

StripeEvent(type, object) == [type |-> type, object |-> object]

\* the session create_checkout_session opens for a user and a plan, completed:
\* mode "subscription" gives it a subscription of its own
CheckoutSession(user_id, plan) ==
    StripeObject("cs_" \o ToString(user_id) \o "_" \o plan, "complete",
                 "sub_" \o ToString(user_id) \o "_" \o plan, ToString(user_id), plan)

\* a session of the same Stripe account that the application did not open
ForeignSession == StripeObject("cs_other", "complete", "sub_other", Null, Null)

\* /checkout: only a logged-in user opens a session, for a plan with a price
CheckoutSessions(db) ==
    {CheckoutSession(u, plan) : u \in DOMAIN db, plan \in STRIPE_PRICE_IDS}
        \cup {ForeignSession}

SubscriptionStatuses == {"active", "past_due", "canceled", "unpaid"}

\* the subscription objects Stripe may send: of a session above, or without id
Subscriptions(db) ==
    {StripeObject(id, status, Null, Null, Null) :
        id \in {s.subscription : s \in CheckoutSessions(db)} \cup {Null},
        status \in SubscriptionStatuses}

\* a handler that reads the plan off the session instead of its metadata
handle_checkout_completed_plan_off_session(db, session) ==
    LET user_id == session.metadata.user_id
    IN  IF user_id # Null /\ IntOfId(user_id) \in DOMAIN db
        THEN [db EXCEPT ![IntOfId(user_id)] =
                 Account(IntOfId(user_id), Null, session.subscription, "active")]
        ELSE db

handle_checkout_completed(db, session) ==
    LET user_id == session.metadata.user_id
        plan    == session.metadata.plan
    IN  IF user_id # Null /\ IntOfId(user_id) \in DOMAIN db
        THEN [db EXCEPT ![IntOfId(user_id)] =
                 Account(IntOfId(user_id), plan, session.subscription, "active")]
        ELSE db

NoRow == 0

\* query(User).filter(User.stripe_subscription_id == subscription_id).first():
\* the rows .first() may return (there is no ORDER BY), NoRow when none
\* matches; comparing the column with None renders IS NULL
first_by_subscription(db, subscription_id) ==
    LET rows == {u \in DOMAIN db : db[u].stripe_subscription_id = subscription_id}
    IN  IF rows = {} THEN {NoRow} ELSE rows

handle_subscription_updated(db, subscription, user) ==
    IF user = NoRow
    THEN db
    ELSE [db EXCEPT ![user] =
             IF subscription.status \in {"canceled", "unpaid"}
             THEN Account(user, "demo", Null, subscription.status)
             ELSE Account(user, db[user].plan, db[user].stripe_subscription_id,
                          subscription.status)]

handle_subscription_deleted(db, subscription, user) ==
    IF user = NoRow
    THEN db
    ELSE [db EXCEPT ![user] = Account(user, "demo", Null, "canceled")]

\* lines 697-704: Plan(plan.lower()) with the ValueError fallback; None has
\* no lower()
plan_enum(plan) ==
    IF plan = Null
    THEN [exc |-> "AttributeError", plan |-> Null]
    ELSE [exc |-> "", plan |-> PlanEnum(plan)]

WebhookInit ==
    /\ users = <<>>
    /\ usage_logs = {}
    /\ now = [ym |-> 1, rest |-> 0]
    /\ req = NoReqs /\ gate_out = NotAsked
    /\ ExtractIdle /\ ResolveIdle

Register ==
    /\ Len(users) < MaxAccounts
    /\ users' = create_user(users)
    /\ req' = NoReqs
    /\ UNCHANGED <<usage_logs, now, gate_out, url_text, coords, rc_in, rc_out>>

CheckoutCompleted ==
    /\ \E session \in CheckoutSessions(users) :
          /\ req' = <<StripeEvent("checkout.session.completed", session)>>
          /\ users' = handle_checkout_completed(users, session)
    /\ UNCHANGED <<usage_logs, now, gate_out, url_text, coords, rc_in, rc_out>>

SubscriptionUpdated ==
    /\ \E subscription \in Subscriptions(users) :
          /\ req' = <<StripeEvent("customer.subscription.updated", subscription)>>
          /\ \E user \in first_by_subscription(users, subscription.id) :
                users' = handle_subscription_updated(users, subscription, user)
    /\ UNCHANGED <<usage_logs, now, gate_out, url_text, coords, rc_in, rc_out>>

SubscriptionDeleted ==
    /\ \E subscription \in Subscriptions(users) :
          /\ req' = <<StripeEvent("customer.subscription.deleted", subscription)>>
          /\ \E user \in first_by_subscription(users, subscription.id) :
                users' = handle_subscription_deleted(users, subscription, user)
    /\ UNCHANGED <<usage_logs, now, gate_out, url_text, coords, rc_in, rc_out>>

\* an event of a type the webhook does not dispatch
OtherEvent ==
    /\ req' = <<StripeEvent("invoice.paid", StripeObject("in_1", "paid", Null, Null, Null))>>
    /\ UNCHANGED <<users, usage_logs, now, gate_out, url_text, coords, rc_in, rc_out>>

WebhookNext ==
    \/ Register
    \/ CheckoutCompleted
    \/ SubscriptionUpdated
    \/ SubscriptionDeleted
    \/ OtherEvent

WebhookSpec == WebhookInit /\ [][WebhookNext]_vars

\* C19: in every account state reached by registration and the webhook
\* handlers, choosing the plan for generation does not fail, the ceiling the
\* gate takes from PLAN_LIMITS is the monthly_limit of the PLAN_CONFIG entry
\* the generator uses, and that entry watermarks exactly when the ceiling is
\* the demo ceiling.
C19_GateAndGeneratorAgree ==
    \A u \in DOMAIN users :
        LET chosen == plan_enum(users[u].plan)
            limit  == PLAN_LIMITS_get(users[u].plan, 5)
        IN  /\ chosen.exc = ""
            /\ limit = PLAN_CONFIG(chosen.plan).monthly_limit
            /\ get_remaining_count(usage_logs, users[u], now) = limit
            /\ PLAN_CONFIG(chosen.plan).watermark <=> (limit = 5)

\* account 1 upgraded to standard and is active, account 2 subscribed and
\* was cancelled again
C19_Witness ==
    /\ Len(users) = 2
    /\ users[1] = Account(1, "standard", "sub_1_standard", "active")
    /\ users[2] = Account(2, "demo", Null, "canceled")
    /\ req # NoReqs /\ req[1].type = "customer.subscription.deleted"
    /\ req[1].object.id = "sub_2_lite"

\* the columns a subscription event may change
Billing(row) == <<row.plan, row.stripe_subscription_id, row.subscription_status>>

\* the users whose current subscription id is the event's id
Holders(db, subscription) ==
    IF subscription.id = Null
    THEN {}
    ELSE {u \in DOMAIN db : db[u].stripe_subscription_id = subscription.id}

\* C20: a subscription-updated or subscription-deleted event changes plan,
\* subscription id and status of at most one user, a user whose current
\* subscription id is the event's id; when no user holds that id, or the
\* event has no id, no user's plan, subscription id or status changes.
C20_OnlyTheHolderChanges ==
    [][(SubscriptionUpdated \/ SubscriptionDeleted) =>
          LET changed == {u \in DOMAIN users : Billing(users'[u]) # Billing(users[u])}
          IN  /\ changed \subseteq Holders(users, req'[1].object)
              /\ Cardinality(changed) <= 1]_vars

====
